---------------------------- MODULE Spec2Model ----------------------------
(***************************************************************************)
(* The catalog synchronization core of the GitHub Images Manager            *)
(* (app/services/github.ts): uploadImage and deleteImage run as             *)
(* concurrent invocations against one remote store holding the blobs        *)
(* under images/ and the catalog resource metadata.json.                    *)
(*                                                                         *)
(* Every await of a store request is a scheduling point: one action is the  *)
(* store handling one request of one invocation, followed by the            *)
(* synchronous code that runs on the response up to the next request.       *)
(***************************************************************************)
EXTENDS Integers, Sequences, FiniteSets, TLC

\* ------------------------------------------------------------------ bounds
NumProcs == 2     \* concurrent invocations (browser tabs / callers)
MaxClock == 1     \* Date.now() ranges over 0..MaxClock
MaxEntries == 2   \* length of the catalogs drawn as inputs of the catalog mutations
MaxWriters == 1   \* invocations that run beside a caller of fetchFile / fetchMetadata, or that the page starts
MaxRefreshes == 1 \* clicks on the gallery's Refresh button

Procs == 1..NumProcs

\* --------------------------------------------------------- values and inputs
\* A string is a sequence of UTF-16 code units.
Underscore == 95

\* /[^a-zA-Z0-9.-]/ : the characters sanitization keeps
IsSafeChar(c) ==
    \/ c \in 48..57
    \/ c \in 65..90
    \/ c \in 97..122
    \/ c = 46
    \/ c = 45

\* file.name.replace(/[^a-zA-Z0-9.-]/g, '_')
Sanitize(name) == [i \in DOMAIN name |-> IF IsSafeChar(name[i]) THEN name[i] ELSE Underscore]

\* (faulty variant: the timestamp prefix is read once, when the module loads)
MintWithStaleClock(now, name) == <<0, Sanitize(name)>>
\* `${Date.now()}_${sanitizedName}`
MintFilename(now, name) == <<now, Sanitize(name)>>

\* "p " and "p_": two original names with the same sanitized form
FileNames == {<<112, 32>>, <<112, 95>>}
\* "d" and a description holding a code unit above 0xFF (U+2603)
Descriptions == {<<100>>, <<9731>>}
\* the files a caller can hand to uploadImage; readable = FileReader succeeds
Files == [name : FileNames, bytes : {"b1"}, readable : BOOLEAN]

\* the filename of an image uploaded before the modelled run ("0_o")
OldFilename == <<0, <<111>>>>

\* every filename an upload can mint, or that a caller can ask to delete
Filenames == {MintFilename(t, n) : t \in 0..MaxClock, n \in FileNames} \cup {OldFilename}

\* getGitHubUrl(filename): derived from repo, branch and filename
GetGitHubUrl(filename) == <<"https://github.com/repo/blob/main/images/", filename, "?raw=true">>

\* ------------------------------------------------------------- the store
\* A blob path holds bytes or nothing; the store's token of a resource is
\* the hash of its content, modelled as an injective tag of the content.
NoBlob == "none"
BlobSha(bytes) == <<"sha", bytes>>
NoBlobSha == <<"sha", NoBlob>>

\* metadata.json as stored: absent, or content that is the JSON of a catalog,
\* text that is no JSON ("corrupt"), or JSON without an images array
\* ("misshaped", e.g. {}).
NoFile == [kind |-> "none", images |-> <<>>]
CorruptFile == [kind |-> "corrupt", images |-> <<>>]
MisshapedFile == [kind |-> "misshaped", images |-> <<>>]
\* content that is the JSON text null: JSON.parse returns null, and reading
\* .images of it throws a TypeError
NullFile == [kind |-> "null", images |-> <<>>]
CatalogFile(images) == [kind |-> "json", images |-> images]
FileSha(file) == <<"sha", file>>
\* sha undefined: existingMetadataFile?.sha of an absent catalog
NoSha == <<"sha", NoFile>>

\* JSON.stringify(metadata, null, 2) handed to btoa: btoa throws on any code
\* unit above 0xFF.
IsLatin1(s) == \A i \in DOMAIN s : s[i] <= 255
CanEncode(images) == \A i \in DOMAIN images : IsLatin1(images[i].description)

\* atob + JSON.parse inside try/catch: undecodable content gives the empty
\* catalog; JSON without an images array parses, and metadata.images is
\* undefined.
\* (faulty variant: JSON.parse outside the try, so that undecodable content
\* throws as well)
DecodeOkOnlyForJson(file) == file.kind = "json"
DecodeOk(file) == file.kind \notin {"misshaped", "null"}
Decode(file) == IF file.kind = "json" THEN file.images ELSE <<>>

\* (faulty variant: metadata.images = [newImage] drops the entries read)
UnshiftOntoNothing(images, newImage) == <<newImage>>
\* (faulty variant: push for unshift, the entry is appended)
Push(images, newImage) == images \o <<newImage>>
\* metadata.images.unshift(newImage)
Unshift(images, newImage) == <<newImage>> \o images

\* (faulty variants of the filter: a predicate that is always true, one with
\* === for !==, and one that is always false)
FilterKeepsAll(images, filename) == images
FilterKeepsOnlyMatching(images, filename) == SelectSeq(images, LAMBDA img : img.filename = filename)
FilterDropsAll(images, filename) == <<>>
\* (faulty variant: metadata.images.slice(1), the first entry is dropped)
FilterDropsFirst(images, filename) == SubSeq(images, 2, Len(images))
\* metadata.images.filter((img) => img.filename !== image.filename)
FilterOut(images, filename) == SelectSeq(images, LAMBDA img : img.filename # filename)

\* PUT /contents/metadata.json: without sha the store creates the resource
\* and refuses when it exists; with sha it updates and refuses when the sha
\* is not the current one.
StoreAcceptsPut(sha, current) ==
    IF sha = NoSha
    THEN current = NoFile
    ELSE current # NoFile /\ sha = FileSha(current)

\* DELETE /contents/images/<filename> with sha
StoreAcceptsDelete(sha, currentBlob) ==
    currentBlob # NoBlob /\ sha = BlobSha(currentBlob)

\* how a request fails other than by 404 or a refusal of the store (no response)
RequestErrors == {"network"}

\* getErrorMessage(error)
GetErrorMessage(error) ==
    CASE error = "401" -> "Authentication failed. Please check your GitHub token."
      [] error = "403" -> "Access denied. Your token may lack the required permissions."
      [] error = "404" -> "Repository not found. Please check the repository name."
      [] error = "422" -> "File already exists or invalid request."
      [] error = "409" -> "response.data.message"
      [] error = "network" -> "Network Error"
      [] error = "config" -> "Missing required environment variables: VITE_GITHUB_TOKEN and VITE_GITHUB_REPO"
      [] error = "TypeError" -> "Cannot read properties of undefined"
      [] error = "InvalidCharacterError" -> "The string to be encoded contains characters outside of the Latin1 range."
      [] OTHER -> "An unexpected error occurred."

\* UploadResult / DeleteResult; returned = FALSE while the promise is pending
Pending == [returned |-> FALSE, success |-> FALSE, url |-> <<>>, error |-> ""]
Success(url) == [returned |-> TRUE, success |-> TRUE, url |-> url, error |-> ""]
\* (faulty variant: a catch block that returns { success: true })
SwallowedAsSuccess(error) == [returned |-> TRUE, success |-> TRUE, url |-> <<>>, error |-> ""]
Failure(error) == [returned |-> TRUE, success |-> FALSE, url |-> <<>>, error |-> GetErrorMessage(error)]

\* one request of an invocation and how the store answered it
Request(method, path, answer) == [method |-> method, path |-> path, answer |-> answer]

\* --------------------------------------------------------------- state
VARIABLES
    config,       \* VITE_GITHUB_TOKEN and VITE_GITHUB_REPO are both set
    clock,        \* the wall clock in milliseconds
    blobs,        \* store: images/<filename> -> bytes or NoBlob
    catalog,      \* store: metadata.json, a file or NoFile
    pc,           \* where each invocation stands
    op,           \* "none", "upload" or "delete"
    locals,       \* the invocation's local variables
    result,       \* what the invocation returned
    requests,     \* the requests each invocation has had answered, in order
    overlap,      \* another invocation was in flight during this one
    trip,         \* a catalog value under the two catalog mutations
    reader,       \* a caller of fetchFile / fetchMetadata and what it got
    page          \* the page: GalleryComponent's state and its loads in flight

\* what lies beyond the store and the invocations of uploadImage and
\* deleteImage: their steps leave it alone
beyond == <<trip, reader, page>>

vars == <<config, clock, blobs, catalog, pc, op, locals, result, requests, overlap, trip, reader, page>>

NoFilename == <<>>
NoImage == [filename |-> NoFilename, description |-> <<>>, url |-> <<>>, timestamp |-> 0, sha |-> NoBlobSha]

\* filename: minted (upload) or image.filename (delete); newImage: the entry
\* an upload prepends; blobSha: imageFile.sha of a delete; metaSha and
\* newContent: the sha and content handed to createOrUpdateFile
NoLocals ==
    [filename |-> NoFilename, newImage |-> NoImage, blobSha |-> NoBlobSha,
     metaSha |-> NoSha, newContent |-> NoFile]

InFlight(p) == pc[p] \notin {"idle", "done"}

\* an entry uploaded before the modelled run, with its blob in the store
OldImage ==
    [filename |-> OldFilename, description |-> <<100>>,
     url |-> GetGitHubUrl(OldFilename), timestamp |-> 0, sha |-> BlobSha("b1")]

NoBlobs == [f \in Filenames |-> NoBlob]

\* no catalog value is under mutation
NoTrip == [stage |-> "none", before |-> <<>>, entry |-> NoImage, images |-> <<>>]

\* fetchFile / fetchMetadata have not been called
NoReader ==
    [fn |-> "none", path |-> <<>>, pc |-> "idle", sent |-> 0, answer |-> "none",
     outcome |-> "none", value |-> NoFile]

\* the page is not rendered
NoPage ==
    [images |-> <<>>, isLoading |-> FALSE, error |-> FALSE, deletingImage |-> NoFilename,
     refreshTrigger |-> 0, refreshes |-> 0, handled |-> {}, loads |-> <<>>]

BeyondInit == trip = NoTrip /\ reader = NoReader /\ page = NoPage

\* The store before the first modelled invocation: no catalog yet, an empty
\* or one-entry catalog written by this module, or a metadata.json edited by
\* hand into something that is no catalog.
Init ==
    /\ config \in BOOLEAN
    /\ clock = 0
    /\ \/ /\ catalog \in {NoFile, CatalogFile(<<>>), CorruptFile, MisshapedFile}
          /\ blobs = NoBlobs
       \/ /\ catalog = CatalogFile(<<OldImage>>)
          /\ blobs = [NoBlobs EXCEPT ![OldImage.filename] = "b1"]
    /\ pc = [p \in Procs |-> "idle"]
    /\ op = [p \in Procs |-> "none"]
    /\ locals = [p \in Procs |-> NoLocals]
    /\ result = [p \in Procs |-> Pending]
    /\ requests = [p \in Procs |-> <<>>]
    /\ overlap = [p \in Procs |-> FALSE]
    /\ BeyondInit

\* ------------------------------------------------------- shared steps
\* the invocation goes on to await its next request
Goto(p, label, newLocals) ==
    /\ pc' = [pc EXCEPT ![p] = label]
    /\ locals' = [locals EXCEPT ![p] = newLocals]
    /\ UNCHANGED result

\* the invocation returns r: its locals are gone (the filename is kept, to
\* tell which image the invocation was about)
Return(p, r) ==
    /\ pc' = [pc EXCEPT ![p] = "done"]
    /\ result' = [result EXCEPT ![p] = r]
    /\ locals' = [locals EXCEPT ![p] = [NoLocals EXCEPT !.filename = locals[p].filename]]

\* (faulty variants: a catch block that reports success, and no catch block
\* at all, so that the promise rejects: no result, pc "rejected")
CatchReportsSuccess(p, error) ==
    /\ pc' = [pc EXCEPT ![p] = "done"]
    /\ result' = [result EXCEPT ![p] = Success(<<>>)]
    /\ locals' = [locals EXCEPT ![p] = [NoLocals EXCEPT !.filename = locals[p].filename]]
Rethrow(p, error) ==
    /\ pc' = [pc EXCEPT ![p] = "rejected"]
    /\ locals' = [locals EXCEPT ![p] = [NoLocals EXCEPT !.filename = locals[p].filename]]
    /\ UNCHANGED result
\* the catch block of uploadImage / deleteImage: every statement of both
\* functions is inside the try, so whatever is thrown becomes a result
Catch(p, error) == Return(p, Failure(error))

Answered(p, method, path, answer) ==
    requests' = [requests EXCEPT ![p] = Append(@, Request(method, path, answer))]

\* A caller starts invocation p. Invocations are numbered in the order they
\* start; every invocation in flight at that moment overlaps p.
Started(p, which) ==
    /\ pc[p] = "idle"
    /\ \A q \in Procs : q < p => pc[q] # "idle"
    /\ op' = [op EXCEPT ![p] = which]
    /\ overlap' = [q \in Procs |->
                        IF q = p THEN \E r \in Procs \ {p} : InFlight(r)
                        ELSE overlap[q] \/ InFlight(q)]

\* ------------------------------------------------------------ uploadImage
\* lines 98-109: getConfig, mint the filename, read the file. new Date()
\* (line 103) and Date.now() (line 105) run in one synchronous block and read
\* the same millisecond; the clock has advanced by any amount since the
\* previous upload read it.
UploadImage(p, file, description) ==
    /\ Started(p, "upload")
    /\ IF ~config
       THEN /\ Catch(p, "config")
            /\ UNCHANGED clock
       ELSE \E now \in clock..MaxClock :
            /\ clock' = now
            /\ LET minted == [NoLocals EXCEPT
                       !.filename = MintFilename(now, file.name),
                       !.newImage = [filename |-> MintFilename(now, file.name),
                                     description |-> description,
                                     url |-> GetGitHubUrl(MintFilename(now, file.name)),
                                     timestamp |-> now,
                                     sha |-> NoBlobSha]]
               IN  IF file.readable
                   THEN Goto(p, "put_blob", minted)
                   ELSE /\ pc' = [pc EXCEPT ![p] = "done"]
                        /\ result' = [result EXCEPT ![p] = Failure("ProgressEvent")]
                        /\ locals' = [locals EXCEPT ![p] = [NoLocals EXCEPT !.filename = minted.filename]]
    /\ UNCHANGED beyond
    /\ UNCHANGED <<config, blobs, catalog, requests>>

\* lines 112-116: the store answers PUT images/<filename> (no sha: create);
\* line 138 takes the entry's sha from the response
UploadPutBlob(p) ==
    /\ pc[p] = "put_blob"
    /\ \/ \E e \in RequestErrors :
            /\ Catch(p, e)
            /\ Answered(p, "PUT", "images", "error")
            /\ UNCHANGED blobs
       \/ /\ blobs[locals[p].filename] # NoBlob
          /\ Catch(p, "422")
          /\ Answered(p, "PUT", "images", "rejected")
          /\ UNCHANGED blobs
       \/ /\ blobs[locals[p].filename] = NoBlob
          /\ blobs' = [blobs EXCEPT ![locals[p].filename] = "b1"]   \* the one value of file.bytes
          /\ Goto(p, "get_meta", [locals[p] EXCEPT !.newImage.sha = BlobSha("b1")])
          /\ Answered(p, "PUT", "images", "ok")
    /\ UNCHANGED beyond
    /\ UNCHANGED <<config, clock, catalog, op, overlap>>

\* (faulty variant: the sha parameter never reaches the payload)
CreateOrUpdateFileWithoutSha(p, images, sha) ==
    IF CanEncode(images)
    THEN Goto(p, "put_meta", [locals[p] EXCEPT !.newContent = CatalogFile(images), !.metaSha = NoSha])
    ELSE Catch(p, "InvalidCharacterError")
\* createOrUpdateFile up to its api.put (lines 76-89): btoa(content) throws
\* before any request is made when the content is not Latin-1
CreateOrUpdateFile(p, images, sha) ==
    IF CanEncode(images)
    THEN Goto(p, "put_meta", [locals[p] EXCEPT !.newContent = CatalogFile(images), !.metaSha = sha])
    ELSE Catch(p, "InvalidCharacterError")

\* lines 121-148: the store answers GET metadata.json; decode, prepend the
\* new entry, hand the catalog to createOrUpdateFile
UploadGetMetadata(p) ==
    /\ pc[p] = "get_meta"
    /\ op[p] = "upload"
    /\ \/ \E e \in RequestErrors :
            /\ Catch(p, e)
            /\ Answered(p, "GET", "metadata.json", "error")
       \/ /\ catalog = NoFile
          /\ Answered(p, "GET", "metadata.json", "absent")
          /\ CreateOrUpdateFile(p, Unshift(<<>>, locals[p].newImage), NoSha)
       \/ /\ catalog # NoFile
          /\ Answered(p, "GET", "metadata.json", "ok")
          /\ IF DecodeOk(catalog)
             THEN CreateOrUpdateFile(p, Unshift(Decode(catalog), locals[p].newImage), FileSha(catalog))
             ELSE Catch(p, "TypeError")
    /\ UNCHANGED beyond
    /\ UNCHANGED <<config, clock, blobs, catalog, op, overlap>>

\* (faulty variant: fetch the catalog again and retry the write)
RetryOnRejectedPut(p) == Goto(p, "get_meta", locals[p])
\* a refused PUT metadata.json throws out of createOrUpdateFile into the catch
\* block: no second attempt
OnRejectedPut(p) == Catch(p, IF locals[p].metaSha = NoSha THEN "422" ELSE "409")

\* line 89: the store answers PUT metadata.json; lines 150 / 207 on success
PutMetadata(p) ==
    /\ pc[p] = "put_meta"
    /\ \/ \E e \in RequestErrors :
            /\ Catch(p, e)
            /\ Answered(p, "PUT", "metadata.json", "error")
            /\ UNCHANGED catalog
       \/ /\ ~StoreAcceptsPut(locals[p].metaSha, catalog)
          /\ OnRejectedPut(p)
          /\ Answered(p, "PUT", "metadata.json", "rejected")
          /\ UNCHANGED catalog
       \/ /\ StoreAcceptsPut(locals[p].metaSha, catalog)
          /\ catalog' = locals[p].newContent
          /\ Return(p, IF op[p] = "upload" THEN Success(locals[p].newImage.url) ELSE Success(<<>>))
          /\ Answered(p, "PUT", "metadata.json", "ok")
    /\ UNCHANGED beyond
    /\ UNCHANGED <<config, clock, blobs, op, overlap>>

\* ------------------------------------------------------------ deleteImage
\* lines 160-166: getConfig, then fetchFile(images/<filename>) is issued
DeleteImageStarts(p, image) ==
    /\ Started(p, "delete")
    /\ IF ~config
       THEN Catch(p, "config")
       ELSE Goto(p, "get_blob", [NoLocals EXCEPT !.filename = image])
    /\ UNCHANGED <<config, clock, blobs, catalog, requests>>

DeleteImage(p, image) ==
    /\ DeleteImageStarts(p, image)
    /\ UNCHANGED beyond

\* (faulty variant: the 404 of the blob lookup propagates as an error)
FailOnAbsentBlob(p) == Catch(p, "404")
\* lines 47-49, 168: fetchFile turns 404 into null and the blob delete is skipped
OnAbsentBlob(p) == Goto(p, "get_meta", locals[p])

\* (faulty variant: sha: image.sha, the sha recorded in the catalog entry the
\* caller passed)
RecordedSha(p) ==
    LET images == Decode(catalog)
        listed == {i \in DOMAIN images : images[i].filename = locals[p].filename}
    IN  IF listed = {} THEN NoBlobSha ELSE images[CHOOSE i \in listed : TRUE].sha
\* line 174: sha: imageFile.sha, the token in the response to the lookup
FetchedBlobSha(p) == BlobSha(blobs[locals[p].filename])

\* lines 166-168: the store answers GET images/<filename>
DeleteGetBlob(p) ==
    /\ pc[p] = "get_blob"
    /\ \/ \E e \in RequestErrors :
            /\ Catch(p, e)
            /\ Answered(p, "GET", "images", "error")
       \/ /\ blobs[locals[p].filename] = NoBlob
          /\ OnAbsentBlob(p)
          /\ Answered(p, "GET", "images", "absent")
       \/ /\ blobs[locals[p].filename] # NoBlob
          /\ Goto(p, "delete_blob", [locals[p] EXCEPT !.blobSha = FetchedBlobSha(p)])
          /\ Answered(p, "GET", "images", "ok")
    /\ UNCHANGED beyond
    /\ UNCHANGED <<config, clock, blobs, catalog, op, overlap>>

\* (faulty variant: a try/catch around api.delete that goes on to the
\* catalog)
IgnoreRefusedBlobDelete(p) == Goto(p, "get_meta", locals[p])
\* lines 170-176, 208-212: a refused api.delete throws into the catch block
OnRefusedBlobDelete(p) == Catch(p, IF blobs[locals[p].filename] = NoBlob THEN "404" ELSE "409")

\* lines 170-176: the store answers DELETE images/<filename> with imageFile.sha
DeleteBlob(p) ==
    /\ pc[p] = "delete_blob"
    /\ \/ \E e \in RequestErrors :
            /\ Catch(p, e)
            /\ Answered(p, "DELETE", "images", "error")
            /\ UNCHANGED blobs
       \/ /\ ~StoreAcceptsDelete(locals[p].blobSha, blobs[locals[p].filename])
          /\ OnRefusedBlobDelete(p)
          /\ Answered(p, "DELETE", "images", "rejected")
          /\ UNCHANGED blobs
       \/ /\ StoreAcceptsDelete(locals[p].blobSha, blobs[locals[p].filename])
          /\ blobs' = [blobs EXCEPT ![locals[p].filename] = NoBlob]
          /\ Goto(p, "get_meta", locals[p])
          /\ Answered(p, "DELETE", "images", "ok")
    /\ UNCHANGED beyond
    /\ UNCHANGED <<config, clock, catalog, op, overlap>>

\* (faulty variant: write an empty catalog when none exists)
CreateOnAbsentCatalog(p) == CreateOrUpdateFile(p, <<>>, NoSha)
\* lines 182-185: no metadata file exists, nothing to update
OnAbsentCatalog(p) == Return(p, Success(<<>>))

\* lines 180-205: the store answers GET metadata.json; absent returns
\* success at once, else decode, filter, hand to createOrUpdateFile
DeleteGetMetadata(p) ==
    /\ pc[p] = "get_meta"
    /\ op[p] = "delete"
    /\ \/ \E e \in RequestErrors :
            /\ Catch(p, e)
            /\ Answered(p, "GET", "metadata.json", "error")
       \/ /\ catalog = NoFile
          /\ Answered(p, "GET", "metadata.json", "absent")
          /\ OnAbsentCatalog(p)
       \/ /\ catalog # NoFile
          /\ Answered(p, "GET", "metadata.json", "ok")
          /\ IF DecodeOk(catalog)
             THEN CreateOrUpdateFile(p, FilterOut(Decode(catalog), locals[p].filename), FileSha(catalog))
             ELSE Catch(p, "TypeError")
    /\ UNCHANGED beyond
    /\ UNCHANGED <<config, clock, blobs, catalog, op, overlap>>

\* ---------------------------------------------------------- specification
Next ==
    \/ \E p \in Procs, file \in Files, description \in Descriptions : UploadImage(p, file, description)
    \/ \E p \in Procs : UploadPutBlob(p)
    \/ \E p \in Procs : UploadGetMetadata(p)
    \/ \E p \in Procs : PutMetadata(p)
    \/ \E p \in Procs, image \in Filenames : DeleteImage(p, image)
    \/ \E p \in Procs : DeleteGetBlob(p)
    \/ \E p \in Procs : DeleteBlob(p)
    \/ \E p \in Procs : DeleteGetMetadata(p)

Spec == Init /\ [][Next]_vars

\* the steps of invocation p after its start: each is a response of the store
Resume(p) ==
    \/ UploadPutBlob(p)
    \/ UploadGetMetadata(p)
    \/ PutMetadata(p)
    \/ DeleteGetBlob(p)
    \/ DeleteBlob(p)
    \/ DeleteGetMetadata(p)

\* ------------------------------------------------- reading the state
\* the requests of invocation p with this method and path
Sent(p, method, path) ==
    {i \in DOMAIN requests[p] : requests[p][i].method = method /\ requests[p][i].path = path}

CatalogFetches(p) == Cardinality(Sent(p, "GET", "metadata.json"))
CatalogWrites(p) == Cardinality(Sent(p, "PUT", "metadata.json"))

\* the last request of p got this answer
LastAnswered(p, method, path, answer) ==
    /\ requests[p] # <<>>
    /\ requests[p][Len(requests[p])] = Request(method, path, answer)

\* the store's current token of metadata.json (NoSha when it is absent)
CurrentToken == FileSha(catalog)

\* p takes a step
Steps(p) == pc'[p] # pc[p] \/ requests'[p] # requests[p]

\* ------------------------------------------------------------------ C1
\* C1: a catalog write whose revision token is not the store's current token
\* is refused: the invocation returns {success: false} at that step, the
\* catalog resource is left as it was, and the invocation has fetched and
\* written the catalog exactly once each and never does so again.
C1_StaleWriteFailsOutright ==
    [][\A p \in Procs :
          /\ (pc[p] = "put_meta" /\ Steps(p) /\ locals[p].metaSha # CurrentToken)
                => /\ catalog' = catalog
                   /\ pc'[p] = "done"
                   /\ result'[p].returned /\ ~result'[p].success
                   /\ Cardinality({i \in DOMAIN requests'[p] : requests'[p][i].path = "metadata.json"}) = 2
          /\ pc[p] = "done" => requests'[p] = requests[p] /\ pc'[p] = "done"
      ]_vars

C1_Witness ==
    \E p \in Procs :
        /\ pc[p] = "done"
        /\ LastAnswered(p, "PUT", "metadata.json", "rejected")
        /\ ~result[p].success
        /\ overlap[p]

\* ------------------------------------------------------------------ C2
\* C2: every catalog write the store accepts stores the invocation's own
\* mutation (prepend its entry, or remove its filename) applied to the
\* catalog that was in the store immediately before the write, so no entry
\* written by another invocation is dropped.
C2_NoLostUpdate ==
    [][\A p \in Procs :
          (pc[p] = "put_meta" /\ Steps(p) /\ requests'[p][Len(requests'[p])].answer = "ok")
             => /\ catalog'.kind = "json"
                /\ op[p] = "upload" =>
                      catalog'.images = <<locals[p].newImage>> \o Decode(catalog)
                /\ op[p] = "delete" =>
                      catalog'.images =
                          SelectSeq(Decode(catalog), LAMBDA img : img.filename # locals[p].filename)
      ]_vars

\* an upload's write was accepted although another invocation was in flight
\* with it, and the catalog holds the entries of both
C2_Witness ==
    \E p \in Procs :
        /\ pc[p] = "done"
        /\ op[p] = "upload"
        /\ overlap[p]
        /\ LastAnswered(p, "PUT", "metadata.json", "ok")
        /\ catalog.kind = "json"
        /\ Len(catalog.images) >= 2

\* ------------------------------------------------------------------ C3
\* C3: uploadImage and deleteImage never throw: an invocation is idle,
\* awaiting one of its requests, or has returned a result that is either
\* {success: true} or {success: false, error: <message>}. It terminates:
\* whatever it awaits can be answered, every answer takes it to its next
\* request or to its return, and it makes at most four requests.
C3_NeverThrows ==
    \A p \in Procs :
        /\ pc[p] \in {"idle", "put_blob", "get_meta", "put_meta", "get_blob", "delete_blob", "done"}
        /\ pc[p] = "done" <=> result[p].returned
        /\ result[p].returned =>
              \/ result[p].success /\ result[p].error = ""
              \/ ~result[p].success /\ result[p].error # "" /\ result[p].url = <<>>
        /\ InFlight(p) => ENABLED Resume(p)
        /\ Len(requests[p]) <= 4
        /\ pc[p] = "put_blob" => Len(requests[p]) = 0
        /\ pc[p] = "get_blob" => Len(requests[p]) = 0
        /\ pc[p] = "delete_blob" => Len(requests[p]) = 1
        /\ pc[p] = "get_meta" => Len(requests[p]) \in 1..2
        /\ pc[p] = "put_meta" => Len(requests[p]) \in 2..3

\* an upload returned a failure for a wrongly shaped catalog, and a delete
\* for a request that got no response
C3_Witness ==
    \E p, q \in Procs :
        /\ pc[p] = "done" /\ op[p] = "upload" /\ result[p].error = GetErrorMessage("TypeError")
        /\ pc[q] = "done" /\ op[q] = "delete" /\ LastAnswered(q, "GET", "metadata.json", "error")
        /\ result[q].error = GetErrorMessage("network")

\* ------------------------------------------------------------------ C4
\* the catalog fetch of p found no metadata.json
FetchedAbsent(p) ==
    \E i \in Sent(p, "GET", "metadata.json") : requests[p][i].answer = "absent"

\* C4 as stated: an invocation that synchronized the catalog fetched it
\* exactly once, and when it returned success it wrote it exactly once.
C4_OneFetchOneWrite ==
    \A p \in Procs :
        /\ CatalogFetches(p) <= 1
        /\ (pc[p] = "done" /\ result[p].success) =>
              CatalogFetches(p) = 1 /\ CatalogWrites(p) = 1

\* C4 (amended): an invocation fetches the catalog at most once and writes it
\* at most once, the write after the fetch; one that returned success fetched
\* it exactly once and wrote it exactly once, except a deleteImage whose
\* fetch found the catalog absent, which returned success without any write.
C4_OneFetchOneWriteUnlessAbsent ==
    \A p \in Procs :
        /\ CatalogFetches(p) <= 1
        /\ CatalogWrites(p) <= 1
        /\ CatalogWrites(p) = 1 => CatalogFetches(p) = 1
        /\ pc[p] = "put_meta" => CatalogFetches(p) = 1 /\ CatalogWrites(p) = 0
        /\ (pc[p] = "done" /\ result[p].success) =>
              /\ CatalogFetches(p) = 1
              /\ IF op[p] = "delete" /\ FetchedAbsent(p)
                 THEN CatalogWrites(p) = 0
                 ELSE CatalogWrites(p) = 1 /\ LastAnswered(p, "PUT", "metadata.json", "ok")

\* a delete returned success on an absent catalog without writing, and an
\* upload returned success after one fetch and one write
C4_Witness ==
    \E p, q \in Procs :
        /\ pc[p] = "done" /\ op[p] = "delete" /\ result[p].success
        /\ FetchedAbsent(p) /\ CatalogWrites(p) = 0
        /\ pc[q] = "done" /\ op[q] = "upload" /\ result[q].success
        /\ CatalogFetches(q) = 1 /\ CatalogWrites(q) = 1

\* ------------------------------------------------------------------ C5
\* the entries of the stored catalog, as this module decodes them
Entries(file) == Decode(file)
HasEntry(file, f) == \E i \in DOMAIN Entries(file) : Entries(file)[i].filename = f

\* the store accepted the blob write / the blob delete of p
BlobWritten(p) == \E i \in Sent(p, "PUT", "images") : requests[p][i].answer = "ok"
BlobDeleted(p) == \E i \in Sent(p, "DELETE", "images") : requests[p][i].answer = "ok"

\* p returned although its catalog synchronization did not complete
SyncFailed(p) ==
    /\ pc[p] = "done"
    /\ ~LastAnswered(p, "PUT", "metadata.json", "ok")
    /\ ~LastAnswered(p, "GET", "metadata.json", "absent")

\* no other invocation is about the filename of p (an upload's filename is
\* freshly minted)
Fresh(p) == \A q \in Procs \ {p} : locals[q].filename # locals[p].filename

\* C5: an upload whose blob write succeeded and whose catalog synchronization
\* then failed has returned {success: false} and has issued no delete
\* request; its blob is in the store and the catalog has no entry for its
\* (freshly minted) filename.
C5_OrphanedBlob ==
    \A p \in Procs :
        (op[p] = "upload" /\ BlobWritten(p) /\ SyncFailed(p)) =>
            /\ ~result[p].success
            /\ \A i \in DOMAIN requests[p] : requests[p][i].method # "DELETE"
            /\ Fresh(p) =>
                  /\ blobs[locals[p].filename] # NoBlob
                  /\ ~HasEntry(catalog, locals[p].filename)

\* an upload left an orphaned blob behind because the store refused its
\* catalog write
C5_Witness ==
    \E p \in Procs :
        /\ op[p] = "upload" /\ BlobWritten(p) /\ SyncFailed(p)
        /\ LastAnswered(p, "PUT", "metadata.json", "rejected")
        /\ Fresh(p)
        /\ blobs[locals[p].filename] # NoBlob
        /\ catalog.kind = "json"
        /\ ~HasEntry(catalog, locals[p].filename)

\* ------------------------------------------------------------------ C6
\* C6: a delete whose blob delete succeeded and whose catalog
\* synchronization then failed returns {success: false} and leaves the blob
\* absent; the entry stays in the catalog, because an entry leaves the
\* catalog only by the accepted catalog write of a delete of its filename.
C6_DanglingEntry ==
    [][/\ \A p \in Procs :
             (op'[p] = "delete" /\ BlobDeleted(p)' /\ SyncFailed(p)') =>
                 /\ ~result'[p].success
                 /\ Steps(p) => catalog' = catalog /\ blobs' = blobs
                 /\ Fresh(p)' => blobs'[locals'[p].filename] = NoBlob
       /\ \A f \in Filenames :
             (HasEntry(catalog, f) /\ ~HasEntry(catalog', f)) =>
                 \E p \in Procs :
                     /\ op[p] = "delete" /\ locals[p].filename = f
                     /\ pc[p] = "put_meta" /\ pc'[p] = "done"
                     /\ result'[p].success
      ]_vars

\* a delete removed the blob, failed to fetch the catalog, and left a
\* dangling entry
C6_Witness ==
    \E p \in Procs :
        /\ op[p] = "delete" /\ BlobDeleted(p) /\ SyncFailed(p)
        /\ ~result[p].success
        /\ blobs[locals[p].filename] = NoBlob
        /\ HasEntry(catalog, locals[p].filename)

\* ------------------------------------------------------------------ C7
\* p returns in this step
Returns(p) == pc[p] # "done" /\ pc'[p] = "done"

\* none of p's requests went unanswered
NoRequestError(reqs) == \A i \in DOMAIN reqs : reqs[i].answer # "error"

\* q is a deleteImage for the filename of an earlier deleteImage p that had
\* returned (with success or failure) before q started, and no other
\* invocation was in flight while q ran
Reinvoked(p, q) ==
    /\ p < q
    /\ op[p] = "delete" /\ op[q] = "delete"
    /\ locals[p].filename = locals[q].filename
    /\ pc[p] = "done" /\ pc[q] = "done"
    /\ ~overlap[q]

\* C7 as stated (granting that the configuration is present and that every
\* request of the later delete is answered): the later delete returns
\* {success: true}, the blob is absent and no entry has the filename.
C7_ReinvokedDeleteSucceeds ==
    \A p, q \in Procs :
        (Reinvoked(p, q) /\ config /\ NoRequestError(requests[q])) =>
            /\ result[q].success
            /\ blobs[locals[q].filename] = NoBlob
            /\ ~HasEntry(catalog, locals[q].filename)

\* C7 (amended): a deleteImage run without concurrent writers, and so any
\* re-invocation of a delete, returns {success: true} unless one of its own
\* steps fails again (missing configuration, a request without response, a
\* wrongly shaped catalog), and then it returns {success: false}; it is never
\* refused by the store. When it returns success the blob is absent and no
\* entry has the filename. Each of its steps leaves every other blob alone
\* and keeps every other entry, in order.
C7_ReinvokedDeleteIsSafe ==
    [][\A q \in Procs :
          (op'[q] = "delete" /\ ~overlap'[q] /\ Steps(q)) =>
              /\ \A g \in Filenames \ {locals'[q].filename} : blobs'[g] = blobs[g]
              /\ \/ catalog' = catalog
                 \/ /\ catalog'.kind = "json"
                    /\ catalog'.images =
                          SelectSeq(Entries(catalog), LAMBDA img : img.filename # locals'[q].filename)
              /\ Returns(q) =>
                    IF config /\ NoRequestError(requests'[q]) /\ catalog.kind # "misshaped"
                    THEN /\ result'[q].success
                         /\ blobs'[locals'[q].filename] = NoBlob
                         /\ ~HasEntry(catalog', locals'[q].filename)
                    ELSE /\ ~result'[q].success
                         /\ \A i \in DOMAIN requests'[q] : requests'[q][i].answer # "rejected"
      ]_vars

\* a delete removed the blob and failed before the catalog was written; the
\* delete invoked again for the same filename found the blob absent, removed
\* the entry and returned success
C7_Witness ==
    \E p, q \in Procs :
        /\ Reinvoked(p, q)
        /\ BlobDeleted(p) /\ ~result[p].success
        /\ requests[q][1] = Request("GET", "images", "absent")
        /\ LastAnswered(q, "PUT", "metadata.json", "ok")
        /\ result[q].success
        /\ blobs[locals[q].filename] = NoBlob
        /\ catalog = CatalogFile(<<>>)

\* ------------------------------------------------------------------ C8
\* the blob lookup of delete p was answered not-found
LookupAbsent(p) ==
    /\ op[p] = "delete"
    /\ requests[p] # <<>>
    /\ requests[p][1] = Request("GET", "images", "absent")

\* C8: a delete whose blob lookup reports the blob absent issues no
\* blob-delete request and goes on to the catalog synchronization: its next
\* request is the catalog fetch, and it returns {success: true} exactly when
\* that synchronization completes (catalog absent, or write accepted).
C8_AbsentBlobSkipsDelete ==
    \A p \in Procs :
        LookupAbsent(p) =>
            /\ Sent(p, "DELETE", "images") = {}
            /\ pc[p] \in {"get_meta", "put_meta", "done"}
            /\ pc[p] = "get_meta" <=> Len(requests[p]) = 1
            /\ Len(requests[p]) >= 2 =>
                  requests[p][2].method = "GET" /\ requests[p][2].path = "metadata.json"
            /\ pc[p] = "done" => (result[p].success <=> ~SyncFailed(p))

\* a delete found the blob absent, skipped the blob delete, removed the
\* entry from the catalog and returned success
C8_Witness ==
    \E p \in Procs :
        /\ LookupAbsent(p)
        /\ pc[p] = "done"
        /\ requests[p] = <<Request("GET", "images", "absent"),
                           Request("GET", "metadata.json", "ok"),
                           Request("PUT", "metadata.json", "ok")>>
        /\ result[p].success

\* ------------------------------------------------------------------ C9
\* C9: at the step in which a deleteImage returns {success: true} (its last
\* store interaction), the catalog resource is absent or holds no entry with
\* that filename, whatever other invocations are in flight.
C9_SuccessMeansNotListed ==
    [][\A p \in Procs :
          (op[p] = "delete" /\ Returns(p) /\ result'[p].success) =>
              \/ catalog' = NoFile
              \/ /\ catalog'.kind = "json"
                 /\ \A i \in DOMAIN catalog'.images :
                        catalog'.images[i].filename # locals[p].filename
      ]_vars

\* a delete that overlapped another invocation returned success after
\* removing an entry that was listed
C9_Witness ==
    \E p \in Procs :
        /\ op[p] = "delete" /\ pc[p] = "done" /\ result[p].success
        /\ overlap[p]
        /\ locals[p].filename = OldFilename
        /\ LastAnswered(p, "PUT", "metadata.json", "ok")
        /\ catalog.kind = "json" /\ ~HasEntry(catalog, OldFilename)

\* ----------------------------------------------------------------- C10
\* C10: a deleteImage for a filename that has no entry in the catalog, run
\* with the configuration present, every request answered and no concurrent
\* writer, returns {success: true}; none of its steps changes the entries of
\* the catalog or their order (an absent catalog stays absent, a catalog is
\* rewritten with the same entries).
C10_DeleteOfUnlistedFilename ==
    [][\A p \in Procs :
          (op'[p] = "delete" /\ Steps(p) /\ ~HasEntry(catalog, locals'[p].filename)) =>
              /\ Entries(catalog') = Entries(catalog)
              /\ catalog = NoFile => catalog' = NoFile
              /\ catalog.kind = "json" => catalog' = catalog
              /\ (Returns(p) /\ config /\ ~overlap'[p] /\ NoRequestError(requests'[p])
                    /\ catalog.kind # "misshaped")
                    => result'[p].success
      ]_vars

\* a delete of a filename that is not listed rewrote a one-entry catalog
\* unchanged and returned success
C10_Witness ==
    \E p \in Procs :
        /\ op[p] = "delete" /\ pc[p] = "done" /\ result[p].success
        /\ ~overlap[p]
        /\ locals[p].filename # OldFilename
        /\ LastAnswered(p, "PUT", "metadata.json", "ok")
        /\ catalog = CatalogFile(<<OldImage>>)

\* ----------------------------------------------------------------- C11
\* The entry and the store left by one uploadImage of "p_" that read the
\* clock at millisecond 0 and returned {success: true}.
MintedImage ==
    [filename |-> MintFilename(0, <<112, 95>>), description |-> <<100>>,
     url |-> GetGitHubUrl(MintFilename(0, <<112, 95>>)), timestamp |-> 0,
     sha |-> BlobSha("b1")]

\* The store after that upload, seen by the invocations that follow it.
\* Date.now() is the wall clock of the caller's machine: a later caller can
\* still read millisecond 0.
InitAfterUpload ==
    /\ config = TRUE
    /\ clock = 0
    /\ catalog = CatalogFile(<<MintedImage>>)
    /\ blobs = [NoBlobs EXCEPT ![MintedImage.filename] = "b1"]
    /\ pc = [p \in Procs |-> "idle"]
    /\ op = [p \in Procs |-> "none"]
    /\ locals = [p \in Procs |-> NoLocals]
    /\ result = [p \in Procs |-> Pending]
    /\ requests = [p \in Procs |-> <<>>]
    /\ overlap = [p \in Procs |-> FALSE]
    /\ BeyondInit

SpecAfterUpload == InitAfterUpload /\ [][Next]_vars

\* the positions of the entries with filename f
Listed(file, f) == {i \in DOMAIN Entries(file) : Entries(file)[i].filename = f}

\* C11: no two entries of the catalog have the same filename. (A second
\* upload minting a listed filename is refused by the store at its blob
\* write while the first blob exists; once a deleteImage has removed that
\* blob and the entry is still listed, the second upload is accepted and
\* prepends a second entry with the same filename.)
C11_UniqueFilenames ==
    \A f \in Filenames : Cardinality(Listed(catalog, f)) <= 1

\* an upload minted the filename of a listed entry whose blob a delete had
\* removed, and the catalog lists the filename twice; the delete was still to
\* fetch the catalog
C11_Witness ==
    \E p, d \in Procs :
        /\ op[p] = "upload" /\ pc[p] = "done" /\ result[p].success
        /\ locals[p].filename = MintedImage.filename
        /\ op[d] = "delete" /\ BlobDeleted(d) /\ pc[d] = "get_meta"
        /\ Cardinality(Listed(catalog, MintedImage.filename)) = 2

\* ----------------------------------------------------------------- C12
\* entry i stands before entry j although it was created earlier
Inverted(images, i, j) == i < j /\ images[i].timestamp < images[j].timestamp

\* C12 as stated: the entries are in non-increasing order of their creation
\* timestamps.
C12_NewestFirst ==
    \A i, j \in DOMAIN Entries(catalog) : ~Inverted(Entries(catalog), i, j)

\* C12 (amended): the catalog is in the order of the catalog writes, latest
\* write first, which is the order of the creation timestamps except where an
\* upload overlapped another invocation: an entry stands before a newer one
\* only if the upload that wrote it read the clock first and wrote the
\* catalog last, having been in flight together with another invocation.
C12_NewestFirstUnlessOverlap ==
    \A i, j \in DOMAIN Entries(catalog) :
        Inverted(Entries(catalog), i, j) =>
            \E p \in Procs :
                /\ op[p] = "upload" /\ overlap[p]
                /\ locals[p].filename = Entries(catalog)[i].filename
                /\ LastAnswered(p, "PUT", "metadata.json", "ok")

\* two uploads overlapped: the one that read the clock at millisecond 0 wrote
\* the catalog after the one that read it at millisecond 1, and its entry
\* stands first
C12_Witness ==
    \E p, q \in Procs :
        /\ op[p] = "upload" /\ op[q] = "upload"
        /\ pc[p] = "done" /\ pc[q] = "done"
        /\ result[p].success /\ result[q].success
        /\ overlap[p]
        /\ Len(Entries(catalog)) >= 2
        /\ Entries(catalog)[1].filename = locals[p].filename
        /\ Entries(catalog)[2].filename = locals[q].filename
        /\ Entries(catalog)[1].timestamp = 0
        /\ Entries(catalog)[2].timestamp = 1

\* ----------------------------------------------------------------- C13
\* C13: an uploadImage run with no other invocation in flight builds its
\* entry from the minted filename, the supplied description, the url derived
\* from the filename and the clock reading, and takes the entry's sha from
\* the blob write; none of its steps changes the catalog but the one
\* returning {success: true}, which leaves the catalog equal to that entry
\* followed by the entries of the prior catalog in their order. An absent
\* catalog is created by a write without sha and holds exactly the entry.
C13_UploadPrependsEntry ==
    [][\A p \in Procs :
          /\ (pc[p] = "idle" /\ pc'[p] = "put_blob") =>
               \A file \in Files, description \in Descriptions :
                 UploadImage(p, file, description) =>
                    /\ locals'[p].filename = <<clock', Sanitize(file.name)>>
                    /\ locals'[p].newImage.filename = locals'[p].filename
                    /\ locals'[p].newImage.description = description
                    /\ locals'[p].newImage.url = GetGitHubUrl(locals'[p].filename)
                    /\ locals'[p].newImage.timestamp = clock'
          /\ (op[p] = "upload" /\ ~overlap'[p] /\ Steps(p)) =>
                IF Returns(p) /\ result'[p].success
                THEN /\ locals[p].newImage.filename = locals[p].filename
                     /\ locals[p].newImage.sha = BlobSha(blobs[locals[p].filename])
                     /\ catalog' = CatalogFile(<<locals[p].newImage>> \o Entries(catalog))
                     /\ LastAnswered(p, "PUT", "metadata.json", "ok")'
                     /\ IF catalog = NoFile
                        THEN locals[p].metaSha = NoSha /\ catalog'.images = <<locals[p].newImage>>
                        ELSE locals[p].metaSha = FileSha(catalog)
                ELSE /\ catalog' = catalog
                     /\ pc'[p] = "get_meta" =>
                           locals'[p].newImage =
                               [locals[p].newImage EXCEPT !.sha = BlobSha(blobs'[locals[p].filename])]
                     /\ pc'[p] = "put_meta" => locals'[p].newImage = locals[p].newImage
      ]_vars

\* an upload created the absent catalog with its one entry, and after it a
\* second upload put its entry in front
C13_Witness ==
    \E p, q \in Procs :
        /\ op[p] = "upload" /\ op[q] = "upload"
        /\ pc[p] = "done" /\ pc[q] = "done"
        /\ ~overlap[p] /\ ~overlap[q]
        /\ result[p].success /\ result[q].success
        /\ requests[p][2] = Request("GET", "metadata.json", "absent")
        /\ requests[q][2] = Request("GET", "metadata.json", "ok")
        /\ Len(Entries(catalog)) = 2
        /\ Entries(catalog)[1].filename = locals[q].filename
        /\ Entries(catalog)[1].timestamp = 1
        /\ Entries(catalog)[1].sha = BlobSha("b1")
        /\ Entries(catalog)[2].filename = locals[p].filename

\* ----------------------------------------------------------------- C14
\* the sequence without its i-th element
RemoveAt(images, i) == SubSeq(images, 1, i - 1) \o SubSeq(images, i + 1, Len(images))

\* C14: a deleteImage run with no other invocation in flight never touches
\* the blob of another filename, and changes the entries of the catalog only
\* at the step returning {success: true} for a listed filename: that step
\* leaves the blob of the filename absent and the catalog without the entry
\* of that filename, every other entry kept in its place in the order
\* (from [A, B], deleting A leaves [B]).
C14_DeleteRemovesExactlyTheEntry ==
    [][\A p \in Procs :
          (op'[p] = "delete" /\ ~overlap'[p] /\ Steps(p)) =>
              /\ \A g \in Filenames \ {locals'[p].filename} : blobs'[g] = blobs[g]
              /\ IF Returns(p) /\ result'[p].success /\ HasEntry(catalog, locals'[p].filename)
                 THEN /\ blobs'[locals'[p].filename] = NoBlob
                      /\ catalog'.kind = "json"
                      /\ ~HasEntry(catalog', locals'[p].filename)
                      /\ \A i \in DOMAIN Entries(catalog) :
                            Listed(catalog, locals'[p].filename) = {i} =>
                                catalog'.images = RemoveAt(Entries(catalog), i)
                 ELSE Entries(catalog') = Entries(catalog)
      ]_vars

\* after an upload had put its entry A in front of the old entry B, a delete
\* of A removed A's blob and left the catalog [B] and B's blob
C14_Witness ==
    \E p, q \in Procs :
        /\ op[q] = "upload" /\ pc[q] = "done" /\ result[q].success
        /\ op[p] = "delete" /\ pc[p] = "done" /\ result[p].success
        /\ ~overlap[p]
        /\ locals[p].filename = locals[q].filename
        /\ requests[p] = <<Request("GET", "images", "ok"),
                           Request("DELETE", "images", "ok"),
                           Request("GET", "metadata.json", "ok"),
                           Request("PUT", "metadata.json", "ok")>>
        /\ blobs[locals[p].filename] = NoBlob
        /\ blobs[OldFilename] = "b1"
        /\ catalog = CatalogFile(<<OldImage>>)

\* ----------------------------------------------------------------- C15
\* The two catalog mutations as functions of a catalog value: the upload
\* mutation (line 140) and the delete mutation (line 197), applied one after
\* the other to a drawn catalog and a drawn entry. The store is not involved.
DrawnEntries ==
    {[filename |-> f, description |-> d, url |-> GetGitHubUrl(f),
      timestamp |-> f[1], sha |-> BlobSha("b1")] : f \in Filenames, d \in Descriptions}

DrawnCatalogs == UNION {[1..n -> DrawnEntries] : n \in 0..MaxEntries}

\* no invocation has been started
NoInvocations ==
    /\ pc = [p \in Procs |-> "idle"]
    /\ op = [p \in Procs |-> "none"]
    /\ locals = [p \in Procs |-> NoLocals]
    /\ result = [p \in Procs |-> Pending]
    /\ requests = [p \in Procs |-> <<>>]
    /\ overlap = [p \in Procs |-> FALSE]

RoundTripInit ==
    /\ config = TRUE
    /\ clock = 0
    /\ catalog = NoFile
    /\ blobs = NoBlobs
    /\ NoInvocations
    /\ \E images \in DrawnCatalogs, newImage \in DrawnEntries :
          trip = [stage |-> "drawn", before |-> images, entry |-> newImage, images |-> images]
    /\ reader = NoReader
    /\ page = NoPage

\* metadata.images.unshift(newImage)
PrependEntry ==
    /\ trip.stage = "drawn"
    /\ trip' = [trip EXCEPT !.stage = "prepended", !.images = Unshift(trip.images, trip.entry)]
    /\ UNCHANGED <<config, clock, blobs, catalog, pc, op, locals, result, requests, overlap, reader, page>>

\* metadata.images = metadata.images.filter(...)
RemoveByFilename ==
    /\ trip.stage = "prepended"
    /\ trip' = [trip EXCEPT !.stage = "removed", !.images = FilterOut(trip.images, trip.entry.filename)]
    /\ UNCHANGED <<config, clock, blobs, catalog, pc, op, locals, result, requests, overlap, reader, page>>

RoundTripNext == PrependEntry \/ RemoveByFilename

RoundTripSpec == RoundTripInit /\ [][RoundTripNext]_vars

\* the positions of the entries of a catalog value with filename f
Positions(images, f) == {i \in DOMAIN images : images[i].filename = f}
DuplicateFree(images) == \A f \in Filenames : Cardinality(Positions(images, f)) <= 1

\* C15: for every catalog C (duplicate-free or not) and every entry E whose
\* filename is not in C, prepending E puts E first in front of C, and
\* removing the entries with E's filename from the result gives exactly C.
\* When E's filename is in C the round trip loses C's entries of that name.
C15_RoundTrip ==
    /\ trip.stage = "prepended" =>
          /\ Len(trip.images) = Len(trip.before) + 1
          /\ trip.images[1] = trip.entry
          /\ \A i \in DOMAIN trip.before : trip.images[i + 1] = trip.before[i]
    /\ trip.stage = "removed" =>
          /\ Positions(trip.images, trip.entry.filename) = {}
          /\ IF Positions(trip.before, trip.entry.filename) = {}
             THEN trip.images = trip.before
             ELSE Len(trip.images) < Len(trip.before)

\* a duplicate-free catalog of two entries came back unchanged from the
\* round trip with an entry of a third filename
C15_Witness ==
    /\ trip.stage = "removed"
    /\ Len(trip.before) = 2
    /\ DuplicateFree(trip.before)
    /\ Positions(trip.before, trip.entry.filename) = {}
    /\ trip.images = trip.before

\* ------------------------------------------- fetchFile and fetchMetadata
\* A caller of the two exported read functions, one call at a time, beside
\* the invocations of uploadImage and deleteImage.
MetadataPath == <<"metadata.json">>
\* the blob path the caller asks for: that of the old image
ImagePaths == {<<"images/", OldFilename>>}

\* what the store holds at a path, as a file (NoFile when nothing is there)
FileAt(path) ==
    IF path = MetadataPath THEN catalog
    ELSE IF blobs[path[2]] = NoBlob THEN NoFile
    ELSE [kind |-> "blob", images |-> <<>>]

\* fetchFile's catch (lines 46-51): 404 becomes null, anything else is
\* thrown again
\* (faulty variant: no test for 404, every error is thrown again)
ThrowOn404 == [outcome |-> "threw", value |-> NoFile]
NullOn404 == [outcome |-> "null", value |-> NoFile]
\* (faulty variant: the catch returns null whatever the error)
NullOnError(error) == [outcome |-> "null", value |-> NoFile]
ThrowOnError(error) == [outcome |-> "threw", value |-> NoFile]

\* fetchFile(path) on the store's answer: response.data (line 45)
FetchFileResult(answer, file) ==
    CASE answer = "ok" -> [outcome |-> "data", value |-> file]
      [] answer = "absent" -> NullOn404
      [] OTHER -> ThrowOnError(answer)

\* { images: [] }
EmptyMetadata == CatalogFile(<<>>)
\* (faulty variant: fetchMetadata without its catch, the error of fetchFile
\* or of the decoding rejects the promise)
RejectOnCatch == [outcome |-> "threw", value |-> NoFile]
\* fetchMetadata's catch (lines 63-66)
EmptyOnCatch == [outcome |-> "resolved", value |-> EmptyMetadata]
\* (faulty variant: atob(file.content) without the check for null, which
\* throws outside any catch)
RejectOnNull == [outcome |-> "threw", value |-> NoFile]
\* lines 58-60: if (!file) return { images: [] }
EmptyOnNull == [outcome |-> "resolved", value |-> EmptyMetadata]

\* fetchMetadata() on what its fetchFile gave: atob and JSON.parse inside the
\* try; whatever JSON.parse returns is returned as it is (line 62)
FetchMetadataResult(got) ==
    CASE got.outcome = "threw" -> EmptyOnCatch
      [] got.outcome = "null" -> EmptyOnNull
      [] got.value.kind = "corrupt" -> EmptyOnCatch
      [] OTHER -> [outcome |-> "resolved", value |-> got.value]

ResultOf(fn, got) == IF fn = "fetchMetadata" THEN FetchMetadataResult(got) ELSE got

\* the caller calls fn: getConfig throws before any request when the
\* configuration is missing (lines 41, 12-14), else the request is issued
ReaderCalls(fn, path) ==
    /\ reader.pc \in {"idle", "returned"}
    /\ IF ~config
       THEN reader' = [fn |-> fn, path |-> path, pc |-> "returned", sent |-> 0,
                       answer |-> "none",
                       outcome |-> ResultOf(fn, ThrowOnError("config")).outcome,
                       value |-> ResultOf(fn, ThrowOnError("config")).value]
       ELSE reader' = [fn |-> fn, path |-> path, pc |-> "sent", sent |-> 1,
                       answer |-> "none",
                       outcome |-> "none", value |-> NoFile]
    /\ UNCHANGED <<config, clock, blobs, catalog, pc, op, locals, result, requests, overlap, trip, page>>

FetchFileCall(path) == ReaderCalls("fetchFile", path)
FetchMetadataCall == ReaderCalls("fetchMetadata", MetadataPath)

\* how the reader's GET fails other than by 404: no response, or a response
\* with status 401 or 403
FetchErrors == RequestErrors \cup {"401", "403"}

\* the store answers the reader's GET (line 44) and the call returns
ReaderAnswered ==
    /\ reader.pc = "sent"
    /\ \E answer \in FetchErrors \cup {IF FileAt(reader.path) = NoFile THEN "absent" ELSE "ok"} :
          reader' = [reader EXCEPT
                       !.pc = "returned",
                       !.answer = answer,
                       !.outcome = ResultOf(reader.fn, FetchFileResult(answer, FileAt(reader.path))).outcome,
                       !.value = ResultOf(reader.fn, FetchFileResult(answer, FileAt(reader.path))).value]
    /\ UNCHANGED <<config, clock, blobs, catalog, pc, op, locals, result, requests, overlap, trip, page>>

\* the invocations of uploadImage and deleteImage that run beside the reader
Writers == 1..MaxWriters

FetchNext ==
    \/ \E p \in Writers, file \in Files, description \in Descriptions : UploadImage(p, file, description)
    \/ \E p \in Writers, image \in Filenames : DeleteImage(p, image)
    \/ \E p \in Writers : Resume(p)
    \/ \E path \in {MetadataPath} \cup ImagePaths : FetchFileCall(path)
    \/ FetchMetadataCall
    \/ ReaderAnswered

FetchSpec == Init /\ [][FetchNext]_vars

\* ----------------------------------------------------------------- C16
\* C16: when the content of metadata.json cannot be decoded (it is not
\* base64 of JSON text), fetchMetadata resolves with {images: []}, an
\* uploadImage goes on to write the catalog holding just its entry and a
\* deleteImage the empty catalog, each with the sha of the undecodable file;
\* the only failure at that step is btoa refusing the new content, and the
\* store takes what was handed to createOrUpdateFile.
C16_UndecodableIsEmpty ==
    [][/\ (reader.pc = "sent" /\ reader'.pc = "returned" /\ reader.fn = "fetchMetadata"
             /\ reader'.answer = "ok" /\ catalog.kind = "corrupt") =>
             reader'.outcome = "resolved" /\ reader'.value = EmptyMetadata
       /\ \A p \in Procs :
             /\ (pc[p] = "get_meta" /\ Steps(p) /\ catalog.kind = "corrupt"
                   /\ LastAnswered(p, "GET", "metadata.json", "ok")') =>
                   IF op[p] = "upload" /\ ~IsLatin1(locals[p].newImage.description)
                   THEN /\ pc'[p] = "done"
                        /\ result'[p].error = GetErrorMessage("InvalidCharacterError")
                   ELSE /\ pc'[p] = "put_meta"
                        /\ locals'[p].metaSha = FileSha(catalog)
                        /\ locals'[p].newContent =
                              IF op[p] = "upload"
                              THEN CatalogFile(<<locals[p].newImage>>)
                              ELSE CatalogFile(<<>>)
             /\ (pc[p] = "put_meta" /\ Steps(p) /\ LastAnswered(p, "PUT", "metadata.json", "ok")') =>
                   catalog' = locals[p].newContent
      ]_vars

\* metadata.json is undecodable: fetchMetadata has resolved with the empty
\* catalog, and an upload that fetched the file is about to write the catalog
\* holding just its entry
C16_Witness ==
    /\ catalog = CorruptFile
    /\ reader.fn = "fetchMetadata" /\ reader.pc = "returned" /\ reader.answer = "ok"
    /\ reader.value = EmptyMetadata
    /\ \E p \in Procs :
          /\ op[p] = "upload" /\ pc[p] = "put_meta"
          /\ locals[p].newContent = CatalogFile(<<locals[p].newImage>>)
          /\ locals[p].metaSha = FileSha(CorruptFile)

\* ----------------------------------------------------------------- C17
\* C17: a fetchMetadata call whose catalog fetch the store answers with
\* not-found resolves with {images: []}; it has made that one request.
C17_NotFoundIsEmpty ==
    (reader.fn = "fetchMetadata" /\ reader.pc = "returned" /\ reader.answer = "absent") =>
        /\ reader.outcome = "resolved"
        /\ reader.value = EmptyMetadata
        /\ reader.sent = 1

\* no metadata.json in the store, and fetchMetadata has resolved with the
\* empty catalog
C17_Witness ==
    /\ catalog = NoFile
    /\ reader.fn = "fetchMetadata" /\ reader.pc = "returned" /\ reader.answer = "absent"
    /\ reader.outcome = "resolved" /\ reader.value = EmptyMetadata

\* ----------------------------------------------------------------- C18
\* C18: while the configuration is missing, no invocation of uploadImage or
\* deleteImage and no call of fetchFile issues a request: each uploadImage
\* and deleteImage has returned {success: false} with the configuration
\* message at its start, each fetchFile has thrown, and no step changes the
\* store.
C18_ConfigErrorsFailFast ==
    [][~config =>
          /\ catalog' = catalog
          /\ blobs' = blobs
          /\ \A p \in Procs :
                /\ requests'[p] = <<>>
                /\ pc'[p] \in {"idle", "done"}
                /\ pc'[p] = "done" =>
                      /\ ~result'[p].success
                      /\ result'[p].error = GetErrorMessage("config")
          /\ reader'.sent = 0
          /\ reader'.pc \in {"idle", "returned"}
          /\ (reader'.pc = "returned" /\ reader'.fn = "fetchFile") => reader'.outcome = "threw"
      ]_vars

\* with the configuration missing, an invocation has returned the
\* configuration error and fetchFile has thrown, without any request
C18_Witness ==
    /\ ~config
    /\ \E p \in Procs :
          /\ pc[p] = "done" /\ requests[p] = <<>>
          /\ result[p].error = GetErrorMessage("config")
    /\ reader.fn = "fetchFile" /\ reader.pc = "returned"
    /\ reader.outcome = "threw" /\ reader.sent = 0

\* ----------------------------------------------------------------- C19
\* C19: metadata.json comes into existence only at the step at which an
\* uploadImage's catalog write without sha is accepted and the upload
\* returns {success: true}; once it exists no step makes it absent; every
\* uploadImage or deleteImage that returns {success: true} while it exists
\* does so at its accepted catalog write; and every DELETE request of the
\* module is for a path under images/.
C19_CatalogLifecycle ==
    [][/\ (catalog = NoFile /\ catalog' # NoFile) =>
             \E p \in Procs :
                 /\ op[p] = "upload" /\ pc[p] = "put_meta"
                 /\ Returns(p) /\ result'[p].success
                 /\ locals[p].metaSha = NoSha
                 /\ catalog' = locals[p].newContent
                 /\ LastAnswered(p, "PUT", "metadata.json", "ok")'
       /\ catalog # NoFile => catalog' # NoFile
       /\ \A p \in Procs :
             /\ (catalog # NoFile /\ Returns(p) /\ result'[p].success) =>
                   /\ pc[p] = "put_meta"
                   /\ LastAnswered(p, "PUT", "metadata.json", "ok")'
                   /\ catalog' = locals[p].newContent
             /\ \A i \in DOMAIN requests'[p] :
                   requests'[p][i].method = "DELETE" => requests'[p][i].path = "images"
      ]_vars

\* an uploadImage found no catalog and created it, and a deleteImage that
\* found it has then written it
C19_Witness ==
    \E u, d \in Procs :
        /\ op[u] = "upload" /\ op[d] = "delete"
        /\ pc[u] = "done" /\ pc[d] = "done"
        /\ result[u].success /\ result[d].success
        /\ requests[u][2] = Request("GET", "metadata.json", "absent")
        /\ LastAnswered(u, "PUT", "metadata.json", "ok")
        /\ \E i \in DOMAIN requests[d] : requests[d][i] = Request("GET", "metadata.json", "ok")
        /\ LastAnswered(d, "PUT", "metadata.json", "ok")
        /\ catalog # NoFile

\* ------------------------------------------------------------- the page
\* ImageManager with its UploadComponent and GalleryComponent, rendered when
\* the configuration is set. The gallery's loads are calls of fetchMetadata:
\* the store answers each at some moment, and the response reaches the
\* component at a later one. Every invocation of uploadImage and deleteImage
\* is one the page starts.
SentLoad == [pc |-> "sent", answer |-> "none", outcome |-> "none", value |-> NoFile]

\* after the first render: images [], isLoading true, and the effect has
\* called loadImages
MountedPage ==
    [images |-> <<>>, isLoading |-> TRUE, error |-> FALSE, deletingImage |-> NoFilename,
     refreshTrigger |-> 0, refreshes |-> 0, handled |-> {}, loads |-> <<SentLoad>>]

PageInit ==
    /\ config = TRUE
    /\ clock = 0
    /\ \/ /\ catalog \in {NoFile, CatalogFile(<<>>), CorruptFile, MisshapedFile, NullFile}
          /\ blobs = NoBlobs
       \/ /\ catalog = CatalogFile(<<OldImage>>)
          /\ blobs = [NoBlobs EXCEPT ![OldImage.filename] = "b1"]
       \/ /\ catalog = CatalogFile(<<MintedImage, OldImage>>)
          /\ blobs = [NoBlobs EXCEPT ![OldImage.filename] = "b1", ![MintedImage.filename] = "b1"]
    /\ NoInvocations
    /\ trip = NoTrip
    /\ reader = NoReader
    /\ page = MountedPage

\* ImageManager has rendered its components (the gallery has called
\* loadImages at least once)
Rendered == page.loads # <<>>

\* the page started invocation p and its handler has not resumed yet
Unhandled(p) == pc[p] # "idle" /\ p \notin page.handled

\* isUploading: an uploadImage the page started has not been handled yet
IsUploading == \E p \in Procs : op[p] = "upload" /\ Unhandled(p)

\* loadImages(): setIsLoading(true), setError(null), fetchMetadata() issues
\* its GET
LoadImages(current) ==
    [current EXCEPT !.isLoading = TRUE, !.error = FALSE, !.loads = Append(@, SentLoad)]

\* metadata.images || []
ImagesOrEmpty(metadata) == IF metadata.kind = "json" THEN metadata.images ELSE <<>>

\* handleUpload up to its await: the Upload button is disabled while
\* isUploading
HandleUpload(p, file, description) ==
    /\ Rendered
    /\ ~IsUploading
    /\ UploadImage(p, file, description)

\* handleUpload after its await: on success onUploadSuccess() increments
\* refreshTrigger and the gallery's effect calls loadImages
HandleUploadReturns(p) ==
    /\ pc[p] = "done"
    /\ op[p] = "upload"
    /\ p \notin page.handled
    /\ page' = IF result[p].success /\ result[p].url # <<>>
               THEN LoadImages([page EXCEPT !.handled = @ \cup {p}, !.refreshTrigger = @ + 1])
               ELSE [page EXCEPT !.handled = @ \cup {p}]
    /\ UNCHANGED <<config, clock, blobs, catalog, pc, op, locals, result, requests, overlap, trip, reader>>

\* the cards are rendered when no load is pending and the list is not empty
\* (line 145); a card's Delete button is disabled while the card is the one
\* marked as being deleted (lines 152, 293)
CanDelete(i) ==
    /\ ~page.isLoading
    /\ i \in DOMAIN page.images
    /\ page.deletingImage # page.images[i].filename

\* handleDelete up to its await: setDeletingImage(image.filename), then
\* deleteImage(image) runs to its first request
HandleDelete(p, i) ==
    /\ CanDelete(i)
    /\ DeleteImageStarts(p, page.images[i].filename)
    /\ page' = [page EXCEPT !.deletingImage = page.images[i].filename]
    /\ UNCHANGED <<trip, reader>>

\* handleDelete after its await: on success the entries with the filename
\* leave the displayed list; finally setDeletingImage(null)
HandleDeleteReturns(p) ==
    /\ pc[p] = "done"
    /\ op[p] = "delete"
    /\ p \notin page.handled
    /\ page' = [page EXCEPT
                  !.images = IF result[p].success THEN FilterOut(@, locals[p].filename) ELSE @,
                  !.deletingImage = NoFilename,
                  !.handled = @ \cup {p}]
    /\ UNCHANGED <<config, clock, blobs, catalog, pc, op, locals, result, requests, overlap, trip, reader>>

\* the Refresh button, disabled while isLoading
RefreshClick ==
    /\ Rendered
    /\ ~page.isLoading
    /\ page.refreshes < MaxRefreshes
    /\ page' = LoadImages([page EXCEPT !.refreshes = @ + 1])
    /\ UNCHANGED <<config, clock, blobs, catalog, pc, op, locals, result, requests, overlap, trip, reader>>

\* the store answers the GET of load l; fetchMetadata's result is settled
\* by that answer
LoadAnswered(l) ==
    /\ page.loads[l].pc = "sent"
    /\ \E answer \in FetchErrors \cup {IF catalog = NoFile THEN "absent" ELSE "ok"} :
          page' = [page EXCEPT !.loads[l] =
                      [pc |-> "answered", answer |-> answer,
                       outcome |-> FetchMetadataResult(FetchFileResult(answer, catalog)).outcome,
                       value |-> FetchMetadataResult(FetchFileResult(answer, catalog)).value]]
    /\ UNCHANGED <<config, clock, blobs, catalog, pc, op, locals, result, requests, overlap, trip, reader>>

\* loadImages' catch (lines 23-25): setError(...)
ShowLoadError(current) == [current EXCEPT !.error = TRUE, !.isLoading = FALSE]

\* loadImages after its await: a rejected fetchMetadata() goes to the catch;
\* else setImages(metadata.images || []), which throws into the catch when
\* metadata is null; finally setIsLoading(false). Nothing orders the
\* responses of two loads.
LoadApplied(l) ==
    /\ page.loads[l].pc = "answered"
    /\ page' = [(IF page.loads[l].outcome = "threw" \/ page.loads[l].value.kind = "null"
                 THEN ShowLoadError(page)
                 ELSE [page EXCEPT !.images = ImagesOrEmpty(page.loads[l].value),
                                   !.isLoading = FALSE])
                EXCEPT !.loads[l].pc = "applied"]
    /\ UNCHANGED <<config, clock, blobs, catalog, pc, op, locals, result, requests, overlap, trip, reader>>

PageNext ==
    \/ \E p \in Procs, file \in Files, description \in Descriptions : HandleUpload(p, file, description)
    \/ \E p \in Procs : UploadPutBlob(p)
    \/ \E p \in Procs : UploadGetMetadata(p)
    \/ \E p \in Procs : PutMetadata(p)
    \/ \E p \in Procs : HandleUploadReturns(p)
    \/ \E p \in Procs, i \in DOMAIN page.images : HandleDelete(p, i)
    \/ \E p \in Procs : DeleteGetBlob(p)
    \/ \E p \in Procs : DeleteBlob(p)
    \/ \E p \in Procs : DeleteGetMetadata(p)
    \/ \E p \in Procs : HandleDeleteReturns(p)
    \/ RefreshClick
    \/ \E l \in DOMAIN page.loads : LoadAnswered(l)
    \/ \E l \in DOMAIN page.loads : LoadApplied(l)

PageSpec == PageInit /\ [][PageNext]_vars

\* every load has been applied and every invocation the page started is
\* handled
PageQuiescent ==
    /\ \A l \in DOMAIN page.loads : page.loads[l].pc = "applied"
    /\ \A p \in Procs : ~Unhandled(p)

\* ----------------------------------------------------------------- C20
\* C20: each successful upload of the page has triggered one load, and once
\* the page is quiescent after a successful upload, with no load's request
\* failed, the displayed list is the store's catalog and lists the uploaded
\* image.
C20_GalleryShowsUpload ==
    /\ Len(page.loads) = 1 + page.refreshes + page.refreshTrigger
    /\ page.refreshTrigger = Cardinality({p \in page.handled : op[p] = "upload" /\ result[p].success})
    /\ \A p \in page.handled :
          (/\ op[p] = "upload" /\ result[p].success
           /\ \A q \in Procs : op[q] # "delete"
           /\ PageQuiescent
           /\ \A l \in DOMAIN page.loads : page.loads[l].answer \notin FetchErrors) =>
              /\ page.images = Entries(catalog)
              /\ \E i \in DOMAIN page.images : page.images[i].filename = locals[p].filename

\* the load of the first render was answered before the upload's catalog
\* write and applied after the load the upload triggered: the page is
\* quiescent and the gallery does not show the uploaded image
C20_Witness ==
    \E p \in page.handled :
        /\ op[p] = "upload" /\ result[p].success
        /\ \A q \in Procs : op[q] # "delete"
        /\ PageQuiescent
        /\ Len(page.loads) = 2
        /\ page.loads[1].answer \in {"ok", "absent"}
        /\ page.loads[2].answer = "ok"
        /\ page.loads[2].value = catalog
        /\ HasEntry(catalog, locals[p].filename)
        /\ page.images # Entries(catalog)
        /\ \A i \in DOMAIN page.images : page.images[i].filename # locals[p].filename

\* ----------------------------------------------------------------- C21
\* the order in which an uploadImage / a deleteImage issues its requests
UploadOrder == <<<<"PUT", "images">>, <<"GET", "metadata.json">>, <<"PUT", "metadata.json">>>>
DeleteOrder ==
    <<<<"GET", "images">>, <<"DELETE", "images">>, <<"GET", "metadata.json">>, <<"PUT", "metadata.json">>>>
\* the same when the blob lookup finds nothing
DeleteOrderAbsentBlob == <<<<"GET", "images">>, <<"GET", "metadata.json">>, <<"PUT", "metadata.json">>>>

\* the requests answered so far are the first ones of the order
Follows(reqs, order) ==
    /\ Len(reqs) <= Len(order)
    /\ \A i \in DOMAIN reqs : <<reqs[i].method, reqs[i].path>> = order[i]

\* every request but the last got a response that let the invocation go on
EachAfterResponse(reqs) ==
    \A i \in DOMAIN reqs : i < Len(reqs) => reqs[i].answer \in {"ok", "absent"}

\* the one request an invocation awaits at this label, given the ones
\* answered so far
Awaits(label, reqs) ==
    CASE label = "put_blob" -> reqs = <<>>
      [] label = "get_blob" -> reqs = <<>>
      [] label = "delete_blob" -> reqs = <<Request("GET", "images", "ok")>>
      [] label = "get_meta" ->
            /\ reqs # <<>>
            /\ reqs[Len(reqs)] \in {Request("PUT", "images", "ok"), Request("GET", "images", "absent"),
                                    Request("DELETE", "images", "ok")}
      [] label = "put_meta" ->
            /\ reqs # <<>>
            /\ reqs[Len(reqs)] \in {Request("GET", "metadata.json", "ok"), Request("GET", "metadata.json", "absent")}
      [] OTHER -> TRUE

\* C21: the requests of an invocation follow the order blob operation,
\* catalog fetch, catalog write, each issued only after the response to the
\* one before; the token held for the catalog write is the store's token at
\* the moment it answered this invocation's catalog fetch, it is kept
\* until the write, and the write is accepted exactly when it still is the
\* store's token.
C21_SequencedWithFetchedToken ==
    [][\A p \in Procs : Steps(p) =>
          /\ EachAfterResponse(requests'[p])
          /\ Awaits(pc'[p], requests'[p])
          /\ op'[p] = "upload" => Follows(requests'[p], UploadOrder)
          /\ op'[p] = "delete" =>
                \/ Follows(requests'[p], DeleteOrder)
                \/ /\ Follows(requests'[p], DeleteOrderAbsentBlob)
                   /\ Len(requests'[p]) > 1
                   /\ requests'[p][1].answer = "absent"
          /\ (pc[p] = "get_meta" /\ pc'[p] = "put_meta") =>
                /\ locals'[p].metaSha = CurrentToken
                /\ requests'[p] = Append(requests[p],
                       Request("GET", "metadata.json", IF catalog = NoFile THEN "absent" ELSE "ok"))
          /\ (pc[p] = "put_meta" /\ pc'[p] = "put_meta") => locals'[p].metaSha = locals[p].metaSha
          /\ (pc[p] = "put_meta" /\ pc'[p] # "put_meta") =>
                \/ LastAnswered(p, "PUT", "metadata.json", "error")' /\ catalog' = catalog
                \/ /\ locals[p].metaSha = CurrentToken
                   /\ LastAnswered(p, "PUT", "metadata.json", "ok")'
                   /\ catalog' = locals[p].newContent
                \/ /\ locals[p].metaSha # CurrentToken
                   /\ LastAnswered(p, "PUT", "metadata.json", "rejected")'
                   /\ catalog' = catalog
      ]_vars

\* an uploadImage and a deleteImage of a stored image have both gone through
\* all their requests, the delete's catalog write with the token of the
\* catalog the upload had written
C21_Witness ==
    \E u, d \in Procs :
        /\ op[u] = "upload" /\ op[d] = "delete"
        /\ pc[u] = "done" /\ pc[d] = "done"
        /\ result[u].success /\ result[d].success
        /\ Len(requests[u]) = 3 /\ Len(requests[d]) = 4
        /\ requests[d][2] = Request("DELETE", "images", "ok")
        /\ requests[d][3] = Request("GET", "metadata.json", "ok")
        /\ LastAnswered(d, "PUT", "metadata.json", "ok")

\* ----------------------------------------------------------------- C22
\* C22: a fetchFile call that has returned gave null exactly when the store
\* answered not-found; it gave the file when the store answered with one;
\* and it threw when the request failed in any other way or the
\* configuration was missing (no request sent).
C22_NullOnlyOnNotFound ==
    (reader.fn = "fetchFile" /\ reader.pc = "returned") =>
        /\ reader.outcome = "null" <=> reader.answer = "absent"
        /\ reader.answer = "ok" <=> reader.outcome = "data"
        /\ reader.outcome = "data" => reader.value # NoFile
        /\ (reader.answer \in FetchErrors \/ reader.sent = 0) <=> reader.outcome = "threw"
        /\ reader.sent = 0 <=> ~config

\* the store holds nothing at the path and refused the request for lack of
\* authorization: fetchFile threw
C22_Witness ==
    /\ reader.fn = "fetchFile" /\ reader.pc = "returned"
    /\ reader.path \in ImagePaths
    /\ FileAt(reader.path) = NoFile
    /\ reader.answer = "401"
    /\ reader.outcome = "threw"

\* ----------------------------------------------------------------- C23
\* The store holding an image whose catalog entry records no sha, or a sha
\* that is not the blob's token (the blob was replaced outside this module).
StaleEntries == {[OldImage EXCEPT !.sha = NoBlobSha], [OldImage EXCEPT !.sha = BlobSha("b0")]}

InitStaleEntry ==
    /\ config = TRUE
    /\ clock = 0
    /\ \E entry \in StaleEntries : catalog = CatalogFile(<<entry>>)
    /\ blobs = [NoBlobs EXCEPT ![OldImage.filename] = "b1"]
    /\ NoInvocations
    /\ BeyondInit

SpecStaleEntry == InitStaleEntry /\ [][Next]_vars

\* C23: the sha a deleteImage sends with its blob delete is the token the
\* store returned for that blob path in the lookup just before; the store
\* accepts the blob delete exactly when that still is the blob's token; and
\* a deleteImage that overlapped no other invocation and had no request
\* fail for lack of a response returns {success: true}, whatever sha the
\* catalog entry records.
C23_DeleteUsesFetchedToken ==
    [][\A p \in Procs : (op[p] = "delete" /\ Steps(p)) =>
          /\ (pc[p] = "get_blob" /\ pc'[p] = "delete_blob") =>
                /\ locals'[p].blobSha = BlobSha(blobs[locals[p].filename])
                /\ LastAnswered(p, "GET", "images", "ok")'
          /\ pc[p] = "delete_blob" =>
                \/ LastAnswered(p, "DELETE", "images", "error")' /\ blobs' = blobs
                \/ /\ locals[p].blobSha = BlobSha(blobs[locals[p].filename])
                   /\ blobs[locals[p].filename] # NoBlob
                   /\ LastAnswered(p, "DELETE", "images", "ok")'
                   /\ blobs' = [blobs EXCEPT ![locals[p].filename] = NoBlob]
                \/ /\ \/ locals[p].blobSha # BlobSha(blobs[locals[p].filename])
                      \/ blobs[locals[p].filename] = NoBlob
                   /\ LastAnswered(p, "DELETE", "images", "rejected")'
                   /\ blobs' = blobs
          /\ (Returns(p) /\ ~overlap'[p] /\ NoRequestError(requests'[p])) =>
                result'[p].success
      ]_vars

\* a deleteImage of the image whose entry records a stale or no sha ran
\* alone: blob delete and catalog write were accepted, the blob and the
\* entry are gone
C23_Witness ==
    \E p \in Procs :
        /\ op[p] = "delete" /\ pc[p] = "done" /\ ~overlap[p]
        /\ locals[p].filename = OldImage.filename
        /\ requests[p] = <<Request("GET", "images", "ok"), Request("DELETE", "images", "ok"),
                           Request("GET", "metadata.json", "ok"), Request("PUT", "metadata.json", "ok")>>
        /\ result[p].success
        /\ blobs[OldImage.filename] = NoBlob
        /\ catalog = CatalogFile(<<>>)

\* ----------------------------------------------------------------- C24
\* C24: no two invocations the page started are in flight at once, and none
\* of them has had its catalog write refused for a stale token.
C24_UiEditsSerialized ==
    /\ \A p, q \in Procs : (InFlight(p) /\ InFlight(q)) => p = q
    /\ \A p \in Procs :
          pc[p] = "done" => ~LastAnswered(p, "PUT", "metadata.json", "rejected")

\* the page started a delete while its upload was in flight, the upload
\* wrote the catalog first, and the store refused the delete's catalog write
\* for its stale token: the delete returned the 409 message
C24_Witness ==
    \E u, d \in Procs :
        /\ op[u] = "upload" /\ op[d] = "delete"
        /\ overlap[u] /\ overlap[d]
        /\ pc[u] = "done" /\ result[u].success
        /\ pc[d] = "done" /\ ~result[d].success
        /\ LastAnswered(d, "PUT", "metadata.json", "rejected")
        /\ result[d].error = GetErrorMessage("409")
        /\ d \in page.handled

\* ----------------------------------------------------------------- C25
\* a request for the blob path got no response or was refused
BlobStepFailed(reqs) ==
    \E i \in DOMAIN reqs : reqs[i].path = "images" /\ reqs[i].answer \in {"error", "rejected"}

\* C25: the step at which a blob request of an invocation fails (the blob
\* write of an upload, the blob lookup or the blob delete of a delete) is
\* its last: it returns {success: false} there, the catalog and the blobs
\* are as before the step, and the invocation has issued no catalog fetch
\* and no catalog write.
C25_BlobFailureLeavesCatalog ==
    [][\A p \in Procs : (Steps(p) /\ BlobStepFailed(requests'[p])) =>
          /\ pc[p] \in {"put_blob", "get_blob", "delete_blob"}
          /\ pc'[p] = "done"
          /\ ~result'[p].success
          /\ catalog' = catalog
          /\ blobs' = blobs
          /\ CatalogFetches(p)' = 0
          /\ CatalogWrites(p)' = 0
      ]_vars

\* a deleteImage found the blob, another invocation deleted it first, and
\* the store refused this one's blob delete: it returned failure with the
\* entry still in the catalog and no catalog request made
C25_Witness ==
    \E p \in Procs :
        /\ op[p] = "delete" /\ pc[p] = "done"
        /\ requests[p] = <<Request("GET", "images", "ok"), Request("DELETE", "images", "rejected")>>
        /\ ~result[p].success
        /\ HasEntry(catalog, locals[p].filename)

\* ----------------------------------------------------------------- C26
\* The gallery's loads and a direct caller of fetchMetadata, over a store
\* that no invocation changes. Without the configuration the page is not
\* rendered and only the direct caller acts.
LoadInit ==
    /\ config \in BOOLEAN
    /\ clock = 0
    /\ \/ /\ catalog \in {NoFile, CatalogFile(<<>>), CorruptFile, MisshapedFile, NullFile}
          /\ blobs = NoBlobs
       \/ /\ catalog = CatalogFile(<<OldImage>>)
          /\ blobs = [NoBlobs EXCEPT ![OldImage.filename] = "b1"]
    /\ NoInvocations
    /\ trip = NoTrip
    /\ reader = NoReader
    /\ page = IF config THEN MountedPage ELSE NoPage

LoadNext ==
    \/ RefreshClick
    \/ \E l \in DOMAIN page.loads : LoadAnswered(l)
    \/ \E l \in DOMAIN page.loads : LoadApplied(l)
    \/ FetchMetadataCall
    \/ ReaderAnswered

LoadSpec == LoadInit /\ [][LoadNext]_vars

\* every fetchMetadata call that has returned, the caller's and the
\* gallery's, resolved; it resolved with {images: []} when its fetch failed
\* (not found, no response, 401, 403, configuration missing)
NeverRejects ==
    /\ reader.pc = "returned" =>
          /\ reader.outcome = "resolved"
          /\ (reader.answer \in FetchErrors \cup {"absent"} \/ reader.sent = 0) =>
                reader.value = EmptyMetadata
    /\ \A l \in DOMAIN page.loads :
          page.loads[l].pc # "sent" =>
              /\ page.loads[l].outcome = "resolved"
              /\ page.loads[l].answer \in FetchErrors \cup {"absent"} =>
                    page.loads[l].value = EmptyMetadata

\* C26 as stated: fetchMetadata never rejects and the gallery never shows
\* its load error.
C26_NeverRejectsNoLoadError ==
    /\ NeverRejects
    /\ ~page.error

\* C26 amended: fetchMetadata never rejects, and the gallery shows its load
\* error only after a load that fetchMetadata resolved with null, the
\* content of metadata.json being the JSON text null.
C26_NeverRejectsErrorOnlyOnNull ==
    /\ NeverRejects
    /\ page.error =>
          \E l \in DOMAIN page.loads :
              /\ page.loads[l].pc = "applied"
              /\ page.loads[l].answer = "ok"
              /\ page.loads[l].value = NullFile

\* a load lost its response and another was refused with 401: both
\* resolved with the empty catalog and the gallery shows an empty list and
\* no error; the direct caller's fetchMetadata resolved on a 403
C26_Witness ==
    /\ Len(page.loads) = 2
    /\ page.loads[1].pc = "applied" /\ page.loads[2].pc = "applied"
    /\ page.loads[1].answer \in RequestErrors
    /\ page.loads[2].answer = "401"
    /\ page.loads[2].value = EmptyMetadata
    /\ catalog = CatalogFile(<<OldImage>>)
    /\ page.images = <<>>
    /\ ~page.error /\ ~page.isLoading
    /\ reader.pc = "returned" /\ reader.answer = "403" /\ reader.outcome = "resolved"

\* ----------------------------------------------------------------- C27
\* C27: at the step at which handleDelete resumes after a deleteImage, the
\* displayed list loses exactly the entries with that filename when the
\* delete returned success and is unchanged when it returned failure; the
\* card of that image is no longer marked as being deleted; and the card of
\* another image that was marked, its delete still being in flight, stays
\* marked.
C27_GalleryAfterDelete ==
    [][\A p \in Procs :
          (op[p] = "delete" /\ p \notin page.handled /\ p \in page'.handled) =>
              /\ page'.images = IF result[p].success
                                THEN SelectSeq(page.images, LAMBDA img : img.filename # locals[p].filename)
                                ELSE page.images
              /\ page'.deletingImage # locals[p].filename
              /\ \A q \in Procs \ {p} :
                    (/\ op[q] = "delete" /\ Unhandled(q)
                     /\ locals[q].filename # locals[p].filename
                     /\ page.deletingImage = locals[q].filename) =>
                        page'.deletingImage = locals[q].filename
      ]_vars

\* two deletes of different images were started from the gallery; the first
\* has finished and cleared the marker, the second is still in flight and
\* its card is not marked
C27_Witness ==
    \E p, q \in Procs :
        /\ op[p] = "delete" /\ op[q] = "delete"
        /\ locals[p].filename # locals[q].filename
        /\ p \in page.handled
        /\ InFlight(q)
        /\ page.deletingImage = NoFilename
        /\ \E i \in DOMAIN page.images : page.images[i].filename = locals[q].filename
====
